---------------------------- MODULE Spec2Model ----------------------------
(***************************************************************************)
(* Model of the cross-chain veBAL sync composable (useCrossChainSync.ts).  *)
(*                                                                         *)
(* Three specifications share the variables:                               *)
(*   Spec           the reconciler: the three lock queries, the derived    *)
(*                  views computed from them and refetch()                 *)
(*   SpecSync       sync(network): contract address lookup, fee            *)
(*                  estimation, send                                       *)
(*   SpecClassifier getNetworkSyncState applied to every triple of lock    *)
(*                  records of a bounded domain                            *)
(***************************************************************************)
EXTENDS Integers, Sequences, FiniteSets, TLC

VARIABLES
    omniEscrowResponse,      \* data of useOmniEscrowLocksQuery(account)
    mainnetVotingEscrowResponse, \* data of useVotingEscrowLocksQuery(MAINNET, account)
    arbitrumVotingEscrowResponse, \* data of useVotingEscrowLocksQuery(ARBITRUM, remoteUser)
    arbKey,                  \* the user the Arbitrum query is currently keyed by
    inFlight,                \* [query -> BOOLEAN]: a fetch of the query is running
    lookupUser,              \* [query -> the address its latest fetch was issued for]
    refetchPc,               \* position of the refetch() call
    promise,                 \* [query -> state of the promise refetch() holds]
    issued,                  \* [query -> number of refetches this refetch() call issued]
    ruAtCall,                \* whether remoteUser was resolved when refetch() was called
    syncPcAtCall,            \* where the sync() execution stood when refetch() was called
    hasContractAddress,      \* configService.network.addresses.omniVotingEscrow is set
    syncPc,                  \* position of the sync() call
    syncNetwork,             \* the network argument of the sync() call
    syncError,               \* the rejection sync() delivered to its caller
    estimateCalls,           \* estimateSendUserBalance calls of this sync() execution
    estimateChainId,         \* chain id passed to estimateSendUserBalance
    nativeFee,               \* the nativeFee fee estimation returned
    sendCalls,               \* sendUserBalance calls of this sync() execution
    sendArgs,                \* the arguments of the sendUserBalance call
    syncResult,              \* the transaction handle sync() returned to its caller
    clsArgs,                 \* the triple getNetworkSyncState is applied to
    clsResult,               \* what getNetworkSyncState returned for clsArgs
    calcArgs,                \* bias, slope, timestamp and clock of a calculateVeBAlBalance call
    calcResult,              \* what calculateVeBAlBalance returned for calcArgs
    chainCanonical,          \* the user's lock on the canonical chain (mainnet)
    chainBridged,            \* the bridge contract's mirror of that lock
    chainSecondary,          \* the lock the secondary chain (Arbitrum) holds
    now,                     \* Date.now(), in milliseconds
    hasFetchedPoolsForSor,   \* the exported ref hasFetchedPoolsForSor
    sorPc,                   \* [caller -> position of its fetchPoolsForSor() call]
    fetchPoolsCalls,         \* balancer.swaps.fetchPools() invocations so far
    joinArgs,                \* tokenAddresses and initialBalancesString of initJoin
    joinTx                   \* the joinPool transaction initJoin sends

queryVars == <<omniEscrowResponse, mainnetVotingEscrowResponse,
               arbitrumVotingEscrowResponse, arbKey, inFlight, lookupUser>>
refetchVars == <<refetchPc, promise, issued, ruAtCall, syncPcAtCall>>
syncVars == <<hasContractAddress, syncPc, syncNetwork, syncError, estimateCalls,
              estimateChainId, nativeFee, sendCalls, sendArgs, syncResult>>
clsVars == <<clsArgs, clsResult>>
decayVars == <<calcArgs, calcResult>>
chainVars == <<chainCanonical, chainBridged, chainSecondary>>
timeVars == <<now>>
sorVars == <<hasFetchedPoolsForSor, sorPc, fetchPoolsCalls>>
joinVars == <<joinArgs, joinTx>>
vars == <<queryVars, refetchVars, syncVars, clsVars, decayVars, chainVars, timeVars, sorVars, joinVars>>

---------------------------------------------------------------------------
(* Bounds *)

\* bias and slope strings of the classifier's inputs are drawn from 0..MaxVal
MaxVal == 2
\* bias and slope strings of the fetched lock records are drawn from 0..MaxLock
MaxLock == 1
\* nativeFee values fee estimation can return are 1..MaxFee
MaxFee == 3

\* bias of a calculateVeBAlBalance call, in units of 0.00001: 0..MaxBias
MaxBias == 12
\* slope of a calculateVeBAlBalance call, in units of 0.00001 per second: 0..MaxSlope
MaxSlope == 2
\* timestamps are 0..MaxTime seconds; the clock runs to MaxTime seconds and a half
MaxTime == 3

\* fetchPools invocations are counted up to MaxFetchPools
MaxFetchPools == 3
\* initial balances of an initJoin call are 1..MaxAmount
MaxAmount == 3

---------------------------------------------------------------------------
(* Data *)

\* enum NetworkSyncState
Unsynced == "Unsynced"
Syncing == "Syncing"
Synced == "Synced"
NetworkSyncState == {Unsynced, Syncing, Synced}

POLYGON == "POLYGON"
ARBITRUM == "ARBITRUM"
GNOSIS == "GNOSIS"
OPTIMISM == "OPTIMISM"
MAINNET == "MAINNET"

\* all networks that are supported by cross-chain sync feature
allNetworks == {POLYGON, ARBITRUM, GNOSIS, OPTIMISM}

Undefined == "undefined"

\* the connected account (useWeb3().account)
account == "0xAccount"
\* addresses a bridged record can name as remoteUser
Users == {account, "0xDelegate"}

Queries == {"omni", "main", "arb"}

\* a query's data: not loaded (undefined), or the rows of the response
NoData == [loaded |-> FALSE, rows |-> <<>>]
Loaded(rows) == [loaded |-> TRUE, rows |-> rows]

LockVals == 0..MaxLock
OmniLocks == [bias : LockVals, slope : LockVals, remoteUser : Users]
VotingLocks == [bias : LockVals, slope : LockVals]
OmniResponses == {Loaded(<<>>)} \cup {Loaded(<<r>>) : r \in OmniLocks}
VotingResponses == {Loaded(<<>>)} \cup {Loaded(<<r>>) : r \in VotingLocks}

\* EscrowLockData
ClsVals == 0..MaxVal
EscrowLockData == [bias : ClsVals, slope : ClsVals]


---------------------------------------------------------------------------
(* The query layer's flags, as the composable reads them *)

\* a fetch of query q is running (its initial fetch, a key change's, a refetch)
QueryInFlight(q) == inFlight[q]

isLoadingOmniEscrow == QueryInFlight("omni")
isLoadingVotingEscrow == QueryInFlight("main")
isLoadingVotingEscrowArbitrum == QueryInFlight("arb")

\* allEqual(array): every element equals the first one
allEqual(arr) == \A i \in 1..Len(arr) : arr[i] = arr[1]

---------------------------------------------------------------------------
(* The computed views of useCrossChainSync *)

\* if omniEscrowLocks is empty, then all networks are unsynced
allNetworksUnsynced ==
    omniEscrowResponse.loaded /\ Len(omniEscrowResponse.rows) = 0

\* omniEscrowLocks is null or undefined
omniEscrowLocksAbsent ==
    allNetworksUnsynced \/ ~omniEscrowResponse.loaded
        \/ Len(omniEscrowResponse.rows) = 0

\* omniEscrowResponse.value?.omniVotingEscrowLocks[0]; read only when present
omniEscrowLocks == omniEscrowResponse.rows[1]

remoteUser == IF omniEscrowLocksAbsent THEN Undefined ELSE omniEscrowLocks.remoteUser

\* mainnetVotingEscrowResponse.value?.votingEscrowLocks[0] is undefined
mainnetLockAbsent ==
    ~mainnetVotingEscrowResponse.loaded \/ Len(mainnetVotingEscrowResponse.rows) = 0

\* arbitrumVotingEscrowResponse.value?.votingEscrowLocks[0] is undefined
arbitrumLockAbsent ==
    ~arbitrumVotingEscrowResponse.loaded \/ Len(arbitrumVotingEscrowResponse.rows) = 0

\* votingEscrowLocks is null
votingEscrowLocksNull == mainnetLockAbsent \/ arbitrumLockAbsent

\* votingEscrowLocks.value, read only when it is not null
votingEscrowLocks ==
    [n \in {MAINNET, ARBITRUM} |->
        IF n = MAINNET THEN mainnetVotingEscrowResponse.rows[1]
        ELSE arbitrumVotingEscrowResponse.rows[1]]

isLoadingNoFastPath ==
    isLoadingOmniEscrow \/ isLoadingVotingEscrow \/ isLoadingVotingEscrowArbitrum

isLoadingNoArbitrum ==
    IF allNetworksUnsynced THEN FALSE
    ELSE isLoadingOmniEscrow \/ isLoadingVotingEscrow

isLoading ==
    IF allNetworksUnsynced THEN FALSE
    ELSE isLoadingOmniEscrow \/ isLoadingVotingEscrow
            \/ isLoadingVotingEscrowArbitrum

getNetworkSyncStateSymmetric(omniEscrowData, votingEscrowMainnet, votingEscrowNetwork) ==
    LET isSynced ==
            /\ allEqual(<<omniEscrowData.bias, votingEscrowMainnet.bias,
                          votingEscrowNetwork.bias>>)
            /\ allEqual(<<omniEscrowData.slope, votingEscrowMainnet.slope,
                          votingEscrowNetwork.slope>>)
        isSyncing ==
            /\ allEqual(<<omniEscrowData.bias, votingEscrowMainnet.bias>>)
            /\ allEqual(<<omniEscrowData.slope, votingEscrowMainnet.slope>>)
            /\ (omniEscrowData.slope # votingEscrowNetwork.slope
                \/ omniEscrowData.bias # votingEscrowNetwork.bias)
    IN  IF isSynced THEN Synced
        ELSE IF isSyncing THEN Syncing
        ELSE Unsynced

getNetworkSyncStateBiasOnly(omniEscrowData, votingEscrowMainnet, votingEscrowNetwork) ==
    LET isSynced ==
            allEqual(<<omniEscrowData.bias, votingEscrowMainnet.bias,
                       votingEscrowNetwork.bias>>)
        isSyncing ==
            /\ allEqual(<<omniEscrowData.bias, votingEscrowMainnet.bias>>)
            /\ omniEscrowData.bias # votingEscrowNetwork.bias
    IN  IF isSynced THEN Synced
        ELSE IF isSyncing THEN Syncing
        ELSE Unsynced

getNetworkSyncStateSyncingFirst(omniEscrowData, votingEscrowMainnet, votingEscrowNetwork) ==
    LET isSynced ==
            /\ allEqual(<<omniEscrowData.bias, votingEscrowMainnet.bias,
                          votingEscrowNetwork.bias>>)
            /\ allEqual(<<omniEscrowData.slope, votingEscrowMainnet.slope,
                          votingEscrowNetwork.slope>>)
        isSyncing ==
            /\ allEqual(<<omniEscrowData.bias, votingEscrowMainnet.bias>>)
            /\ allEqual(<<omniEscrowData.slope, votingEscrowMainnet.slope>>)
    IN  IF isSyncing THEN Syncing
        ELSE IF isSynced THEN Synced
        ELSE Unsynced

getNetworkSyncStateWrongOperand(omniEscrowData, votingEscrowMainnet, votingEscrowNetwork) ==
    LET isSynced ==
            /\ allEqual(<<omniEscrowData.bias, votingEscrowMainnet.bias,
                          votingEscrowNetwork.bias>>)
            /\ allEqual(<<omniEscrowData.slope, votingEscrowMainnet.slope,
                          votingEscrowNetwork.slope>>)
        isSyncing ==
            /\ allEqual(<<omniEscrowData.bias, votingEscrowMainnet.bias>>)
            /\ allEqual(<<omniEscrowData.slope, votingEscrowMainnet.slope>>)
            /\ omniEscrowData.slope # votingEscrowMainnet.slope
            /\ omniEscrowData.bias # votingEscrowNetwork.bias
    IN  IF isSynced THEN Synced
        ELSE IF isSyncing THEN Syncing
        ELSE Unsynced

getNetworkSyncState(omniEscrowData, votingEscrowMainnet, votingEscrowNetwork) ==
    LET isSynced ==
            /\ allEqual(<<omniEscrowData.bias, votingEscrowMainnet.bias,
                          votingEscrowNetwork.bias>>)
            /\ allEqual(<<omniEscrowData.slope, votingEscrowMainnet.slope,
                          votingEscrowNetwork.slope>>)
        isSyncing ==
            /\ allEqual(<<omniEscrowData.bias, votingEscrowMainnet.bias>>)
            /\ allEqual(<<omniEscrowData.slope, votingEscrowMainnet.slope>>)
            /\ omniEscrowData.slope # votingEscrowNetwork.slope
            /\ omniEscrowData.bias # votingEscrowNetwork.bias
    IN  IF isSynced THEN Synced
        ELSE IF isSyncing THEN Syncing
        ELSE Unsynced

networksSyncStateNullIgnoresLoading ==
    /\ ~allNetworksUnsynced
    /\ \/ omniEscrowLocksAbsent
       \/ mainnetLockAbsent
       \/ arbitrumLockAbsent

\* networksSyncState is null
networksSyncStateNull ==
    /\ ~allNetworksUnsynced
    /\ \/ isLoading
       \/ omniEscrowLocksAbsent
       \/ mainnetLockAbsent
       \/ arbitrumLockAbsent

\* networksSyncState.value, read only when it is not null: network -> state
networksSyncState ==
    IF allNetworksUnsynced
    THEN [n \in {ARBITRUM, OPTIMISM, GNOSIS, POLYGON} |-> Unsynced]
    ELSE [n \in {ARBITRUM} |->
            getNetworkSyncState(
                [bias |-> omniEscrowLocks.bias, slope |-> omniEscrowLocks.slope],
                [bias |-> votingEscrowLocks[MAINNET].bias,
                 slope |-> votingEscrowLocks[MAINNET].slope],
                [bias |-> votingEscrowLocks[ARBITRUM].bias,
                 slope |-> votingEscrowLocks[ARBITRUM].slope])]

\* Object.keys(networksSyncState.value).map(Number): the integer-like keys of an
\* object are listed in ascending numeric order (chain ids 10, 100, 137, 42161)
NetworkKeyOrder == <<OPTIMISM, GNOSIS, POLYGON, ARBITRUM>>

\* the keys of the mapping, filtered by state
NetworksInState(state) ==
    LET InState(network) ==
            /\ network \in DOMAIN networksSyncState
            /\ networksSyncState[network] = state
    IN  SelectSeq(NetworkKeyOrder, InState)

\* Returns networks lists by sync state synced/unsynced
networksBySyncState ==
    IF networksSyncStateNull
    THEN [synced |-> <<>>, unsynced |-> <<>>]
    ELSE [synced |-> NetworksInState(Synced),
          unsynced |-> NetworksInState(Unsynced),
          sincing |-> NetworksInState(Syncing)]

---------------------------------------------------------------------------
(* The query layer: fetches complete, fail, and follow the query key *)

\* useOmniEscrowLocksQuery(account)
omniQueryUser == account

\* useVotingEscrowLocksQuery(Network.MAINNET, account)
mainnetQueryUser == account

arbitrumQueryUserAccount == account

\* useVotingEscrowLocksQuery(Network.ARBITRUM, remoteUser)
arbitrumQueryUser == remoteUser

\* the address argument of query q, read when a fetch of q is issued
QueryUser(q) ==
    IF q = "omni" THEN omniQueryUser
    ELSE IF q = "main" THEN mainnetQueryUser
    ELSE arbitrumQueryUser

Data(q) ==
    IF q = "omni" THEN omniEscrowResponse
    ELSE IF q = "main" THEN mainnetVotingEscrowResponse
    ELSE arbitrumVotingEscrowResponse

Responses(q) == IF q = "omni" THEN OmniResponses ELSE VotingResponses

SetData(q, resp) ==
    /\ omniEscrowResponse' = IF q = "omni" THEN resp ELSE omniEscrowResponse
    /\ mainnetVotingEscrowResponse' =
            IF q = "main" THEN resp ELSE mainnetVotingEscrowResponse
    /\ arbitrumVotingEscrowResponse' =
            IF q = "arb" THEN resp ELSE arbitrumVotingEscrowResponse

\* the running fetch of q delivers a response; a refetch promise waiting on it resolves
FetchResolve(q, resp) ==
    /\ inFlight[q]
    /\ SetData(q, resp)
    /\ inFlight' = [inFlight EXCEPT ![q] = FALSE]
    /\ promise' = [promise EXCEPT ![q] = IF @ = "pending" THEN "resolved" ELSE @]
    /\ UNCHANGED <<arbKey, lookupUser, refetchPc, issued, ruAtCall, syncPcAtCall, syncVars, clsVars, decayVars, chainVars, timeVars, sorVars, joinVars>>

\* the running fetch of q fails; the data stays, a refetch promise waiting on it rejects
FetchReject(q) ==
    /\ inFlight[q]
    /\ inFlight' = [inFlight EXCEPT ![q] = FALSE]
    /\ promise' = [promise EXCEPT ![q] = IF @ = "pending" THEN "rejected" ELSE @]
    /\ UNCHANGED <<omniEscrowResponse, mainnetVotingEscrowResponse,
                   arbitrumVotingEscrowResponse, arbKey, lookupUser, refetchPc,
                   issued, ruAtCall, syncPcAtCall, syncVars, clsVars, decayVars, chainVars, timeVars, sorVars, joinVars>>

\* useVotingEscrowLocksQuery(Network.ARBITRUM, remoteUser): the query follows
\* remoteUser; a new key has no data yet and is fetched when it is an address
ArbitrumKeyChange ==
    /\ arbKey # arbitrumQueryUser
    /\ arbKey' = arbitrumQueryUser
    /\ arbitrumVotingEscrowResponse' = NoData
    /\ inFlight' = [inFlight EXCEPT !["arb"] = @ \/ arbitrumQueryUser # Undefined]
    /\ lookupUser' = [lookupUser EXCEPT !["arb"] =
                        IF arbitrumQueryUser # Undefined THEN arbitrumQueryUser ELSE @]
    /\ UNCHANGED <<omniEscrowResponse, mainnetVotingEscrowResponse, refetchVars,
                   syncVars, clsVars, decayVars, chainVars, timeVars, sorVars, joinVars>>

---------------------------------------------------------------------------
(* refetch() *)

NoPromises == [q \in Queries |-> "none"]
NoneIssued == [q \in Queries |-> 0]

RefetchCallAfterSync ==
    /\ refetchPc = "idle"
    /\ syncPc \in {"idle", "resolved", "rejected"}
    /\ refetchPc' = "awaitAll"
    /\ inFlight' = [inFlight EXCEPT !["omni"] = TRUE, !["main"] = TRUE]
    /\ promise' = [promise EXCEPT !["omni"] = "pending", !["main"] = "pending"]
    /\ issued' = [issued EXCEPT !["omni"] = @ + 1, !["main"] = @ + 1]
    /\ ruAtCall' = (remoteUser # Undefined)
    /\ syncPcAtCall' = syncPc
    /\ lookupUser' = [lookupUser EXCEPT !["omni"] = QueryUser("omni"),
                                        !["main"] = QueryUser("main")]
    /\ UNCHANGED <<omniEscrowResponse, mainnetVotingEscrowResponse,
                   arbitrumVotingEscrowResponse, arbKey, syncVars, clsVars, decayVars, chainVars, timeVars, sorVars, joinVars>>

\* await Promise.all([refetchOmniEscrow(), refetchVotingEscrow()]): both started
RefetchCall ==
    /\ refetchPc = "idle"
    /\ refetchPc' = "awaitAll"
    /\ inFlight' = [inFlight EXCEPT !["omni"] = TRUE, !["main"] = TRUE]
    /\ promise' = [promise EXCEPT !["omni"] = "pending", !["main"] = "pending"]
    /\ issued' = [issued EXCEPT !["omni"] = @ + 1, !["main"] = @ + 1]
    /\ ruAtCall' = (remoteUser # Undefined)
    /\ syncPcAtCall' = syncPc
    /\ lookupUser' = [lookupUser EXCEPT !["omni"] = QueryUser("omni"),
                                        !["main"] = QueryUser("main")]
    /\ UNCHANGED <<omniEscrowResponse, mainnetVotingEscrowResponse,
                   arbitrumVotingEscrowResponse, arbKey, syncVars, clsVars, decayVars, chainVars, timeVars, sorVars, joinVars>>

AllResolvedRace == promise["omni"] = "resolved" \/ promise["main"] = "resolved"

\* Promise.all resolved: both promises are resolved
AllResolved == promise["omni"] = "resolved" /\ promise["main"] = "resolved"

RemoteUserResolvedAtCall == ruAtCall

\* if (remoteUser.value) ...
RemoteUserResolved == remoteUser # Undefined

\* Promise.all resolved; if (remoteUser.value) await refetchVotingEscrowArbitrum()
RefetchAfterAll ==
    /\ refetchPc = "awaitAll"
    /\ AllResolved
    /\ IF RemoteUserResolved
       THEN /\ refetchPc' = "awaitArbitrum"
            /\ inFlight' = [inFlight EXCEPT !["arb"] = TRUE]
            /\ promise' = [promise EXCEPT !["arb"] = "pending"]
            /\ issued' = [issued EXCEPT !["arb"] = @ + 1]
            /\ lookupUser' = [lookupUser EXCEPT !["arb"] = QueryUser("arb")]
       ELSE /\ refetchPc' = "resolved"
            /\ UNCHANGED <<inFlight, promise, issued, lookupUser>>
    /\ UNCHANGED <<omniEscrowResponse, mainnetVotingEscrowResponse,
                   arbitrumVotingEscrowResponse, arbKey, ruAtCall, syncPcAtCall, syncVars, clsVars, decayVars, chainVars, timeVars, sorVars, joinVars>>

\* Promise.all rejects as soon as one of its promises rejects: refetch() rejects
RefetchAllRejected ==
    /\ refetchPc = "awaitAll"
    /\ promise["omni"] = "rejected" \/ promise["main"] = "rejected"
    /\ refetchPc' = "rejected"
    /\ UNCHANGED <<queryVars, promise, issued, ruAtCall, syncPcAtCall, syncVars, clsVars, decayVars, chainVars, timeVars, sorVars, joinVars>>

RefetchAfterArbitrumSwallow ==
    /\ refetchPc = "awaitArbitrum"
    /\ promise["arb"] \in {"resolved", "rejected"}
    /\ refetchPc' = "resolved"
    /\ UNCHANGED <<queryVars, promise, issued, ruAtCall, syncPcAtCall, syncVars, clsVars, decayVars, chainVars, timeVars, sorVars, joinVars>>

\* await refetchVotingEscrowArbitrum() settles: refetch() resolves or rejects
RefetchAfterArbitrum ==
    /\ refetchPc = "awaitArbitrum"
    /\ promise["arb"] \in {"resolved", "rejected"}
    /\ refetchPc' = promise["arb"]
    /\ UNCHANGED <<queryVars, promise, issued, ruAtCall, syncPcAtCall, syncVars, clsVars, decayVars, chainVars, timeVars, sorVars, joinVars>>

\* the caller has the result; the composable is ready for the next refetch()
RefetchReturn ==
    /\ refetchPc \in {"resolved", "rejected"}
    /\ refetchPc' = "idle"
    /\ promise' = NoPromises
    /\ issued' = NoneIssued
    /\ ruAtCall' = FALSE
    /\ syncPcAtCall' = "idle"
    /\ UNCHANGED <<queryVars, syncVars, clsVars, decayVars, chainVars, timeVars, sorVars, joinVars>>

---------------------------------------------------------------------------
(* sync(network) *)

\* https://layerzero.gitbook.io/docs/technical-reference/mainnet/supported-chain-ids
LayerZeroNetworkId(network) ==
    CASE network = POLYGON -> "109"
      [] network = ARBITRUM -> "110"
      [] network = OPTIMISM -> "111"
      [] OTHER -> Undefined

\* nativeFee values: 0 stands for "fee estimation has not returned"
Fees == 1..MaxFee
\* transaction handles sendUserBalance can return
TxHandles == {"0xTxA", "0xTxB"}

NoSendArgs == [userAddress |-> Undefined, chainId |-> Undefined, nativeFee |-> 0]

SyncCallNoAddressCheck(network) ==
    /\ syncPc = "idle"
    /\ syncNetwork' = network
    /\ syncPc' = "estimating"
    /\ estimateCalls' = estimateCalls + 1
    /\ estimateChainId' = LayerZeroNetworkId(network)
    /\ UNCHANGED <<hasContractAddress, syncError, nativeFee, sendCalls, sendArgs,
                   syncResult, queryVars, refetchVars, clsVars, decayVars, chainVars, timeVars, sorVars, joinVars>>

\* sync() up to its first await: the address check, then estimateSendUserBalance
SyncCall(network) ==
    /\ syncPc = "idle"
    /\ syncNetwork' = network
    /\ IF ~hasContractAddress
       THEN /\ syncPc' = "rejected"
            /\ syncError' = "No contract address found"
            /\ UNCHANGED <<estimateCalls, estimateChainId>>
       ELSE /\ syncPc' = "estimating"
            /\ estimateCalls' = estimateCalls + 1
            /\ estimateChainId' = LayerZeroNetworkId(network)
            /\ UNCHANGED syncError
    /\ UNCHANGED <<hasContractAddress, nativeFee, sendCalls, sendArgs, syncResult,
                   queryVars, refetchVars, clsVars, decayVars, chainVars, timeVars, sorVars, joinVars>>

\* the bridge contract answers estimateSendUserBalance with { nativeFee }
EstimateResolve(fee) ==
    /\ syncPc = "estimating"
    /\ syncPc' = "estimated"
    /\ nativeFee' = fee
    /\ UNCHANGED <<hasContractAddress, syncNetwork, syncError, estimateCalls,
                   estimateChainId, sendCalls, sendArgs, syncResult,
                   queryVars, refetchVars, clsVars, decayVars, chainVars, timeVars, sorVars, joinVars>>

\* estimateSendUserBalance rejects
EstimateReject ==
    /\ syncPc = "estimating"
    /\ syncPc' = "estimateRejected"
    /\ UNCHANGED <<hasContractAddress, syncNetwork, syncError, estimateCalls,
                   estimateChainId, nativeFee, sendCalls, sendArgs, syncResult,
                   queryVars, refetchVars, clsVars, decayVars, chainVars, timeVars, sorVars, joinVars>>

SendUserBalanceArgsNoFee ==
    [userAddress |-> account,
     chainId |-> LayerZeroNetworkId(syncNetwork),
     nativeFee |-> 0]

\* the arguments sync() passes to sendUserBalance
SendUserBalanceArgs ==
    [userAddress |-> account,
     chainId |-> LayerZeroNetworkId(syncNetwork),
     nativeFee |-> nativeFee]

\* sync() after the await of estimateSendUserBalance
SyncAfterEstimate ==
    /\ syncPc \in {"estimated", "estimateRejected"}
    /\ IF syncPc = "estimated"
       THEN /\ syncPc' = "sending"
            /\ sendCalls' = sendCalls + 1
            /\ sendArgs' = SendUserBalanceArgs
            /\ UNCHANGED syncError
       ELSE /\ syncPc' = "rejected"
            /\ syncError' = "estimateSendUserBalance rejected"
            /\ UNCHANGED <<sendCalls, sendArgs>>
    /\ UNCHANGED <<hasContractAddress, syncNetwork, estimateCalls, estimateChainId,
                   nativeFee, syncResult, queryVars, refetchVars, clsVars, decayVars, chainVars, timeVars, sorVars, joinVars>>

\* the bridge contract answers sendUserBalance with a transaction handle
SendResolve(tx) ==
    /\ syncPc = "sending"
    /\ syncPc' = "sent"
    /\ syncResult' = tx
    /\ UNCHANGED <<hasContractAddress, syncNetwork, syncError, estimateCalls,
                   estimateChainId, nativeFee, sendCalls, sendArgs,
                   queryVars, refetchVars, clsVars, decayVars, chainVars, timeVars, sorVars, joinVars>>

\* sendUserBalance rejects
SendReject ==
    /\ syncPc = "sending"
    /\ syncPc' = "sendRejected"
    /\ UNCHANGED <<hasContractAddress, syncNetwork, syncError, estimateCalls,
                   estimateChainId, nativeFee, sendCalls, sendArgs, syncResult,
                   queryVars, refetchVars, clsVars, decayVars, chainVars, timeVars, sorVars, joinVars>>

SyncAfterSendOptimistic ==
    /\ syncPc \in {"sent", "sendRejected"}
    /\ IF syncPc = "sent"
       THEN /\ syncPc' = "resolved"
            /\ arbitrumVotingEscrowResponse' = mainnetVotingEscrowResponse
            /\ UNCHANGED syncError
       ELSE /\ syncPc' = "rejected"
            /\ syncError' = "sendUserBalance rejected"
            /\ UNCHANGED arbitrumVotingEscrowResponse
    /\ UNCHANGED <<hasContractAddress, syncNetwork, estimateCalls, estimateChainId,
                   nativeFee, sendCalls, sendArgs, syncResult,
                   omniEscrowResponse, mainnetVotingEscrowResponse, arbKey, inFlight,
                   lookupUser, refetchVars, clsVars, decayVars, chainVars, timeVars, sorVars, joinVars>>

\* sync() after the await of sendUserBalance: return await hands the
\* transaction handle, or the rejection, to the caller of sync()
SyncAfterSend ==
    /\ syncPc \in {"sent", "sendRejected"}
    /\ IF syncPc = "sent"
       THEN /\ syncPc' = "resolved"
            /\ UNCHANGED syncError
       ELSE /\ syncPc' = "rejected"
            /\ syncError' = "sendUserBalance rejected"
    /\ UNCHANGED <<hasContractAddress, syncNetwork, estimateCalls, estimateChainId,
                   nativeFee, sendCalls, sendArgs, syncResult,
                   queryVars, refetchVars, clsVars, decayVars, chainVars, timeVars, sorVars, joinVars>>

\* the caller has the outcome; the next sync() execution starts afresh
SyncReturn ==
    /\ syncPc \in {"resolved", "rejected"}
    /\ syncPc' = "idle"
    /\ syncNetwork' = Undefined
    /\ syncError' = Undefined
    /\ estimateCalls' = 0
    /\ estimateChainId' = Undefined
    /\ nativeFee' = 0
    /\ sendCalls' = 0
    /\ sendArgs' = NoSendArgs
    /\ syncResult' = Undefined
    /\ UNCHANGED <<hasContractAddress, queryVars, refetchVars, clsVars, decayVars, chainVars, timeVars, sorVars, joinVars>>

---------------------------------------------------------------------------
(* getNetworkSyncState on its own *)

ClassifierInputs ==
    [omniEscrowData : EscrowLockData,
     votingEscrowMainnet : EscrowLockData,
     votingEscrowNetwork : EscrowLockData]

NoClassifierInput ==
    [omniEscrowData |-> [bias |-> 0, slope |-> 0],
     votingEscrowMainnet |-> [bias |-> 0, slope |-> 0],
     votingEscrowNetwork |-> [bias |-> 0, slope |-> 0]]

Classify ==
    /\ clsResult = "none"
    /\ clsResult' = getNetworkSyncState(clsArgs.omniEscrowData,
                                        clsArgs.votingEscrowMainnet,
                                        clsArgs.votingEscrowNetwork)
    /\ UNCHANGED <<clsArgs, queryVars, refetchVars, syncVars, decayVars, chainVars, timeVars, sorVars, joinVars>>

---------------------------------------------------------------------------
(* calculateVeBAlBalance on its own *)

(* Decimal strings are held as integers: bias and slope as multiples of      *)
(* 0.00001, one digit more than toFixed(4) keeps; a toFixed(4) string as the *)
(* multiple of 0.0001 it spells.                                             *)

\* Math.floor(Date.now() / 1000)
NowSeconds(nowMs) == nowMs \div 1000

\* BigNumber.toFixed(4) under bignumber.js's default ROUND_HALF_UP: to the
\* nearest multiple of 0.0001, a tie away from zero
toFixed4(ticks) ==
    IF ticks >= 0 THEN (ticks + 5) \div 10 ELSE -((-ticks + 5) \div 10)

calculateVeBAlBalanceClamped(bias, slope, timestamp, nowMs) ==
    LET x == slope * (NowSeconds(nowMs) - timestamp)
    IN  IF bias - x < 0 THEN 0 ELSE toFixed4(bias - x)

\* veBAL_balance = bias - slope * (now() - timestamp)
calculateVeBAlBalance(bias, slope, timestamp, nowMs) ==
    LET x == slope * (NowSeconds(nowMs) - timestamp)
    IN  toFixed4(bias - x)

DecayInputs ==
    [bias : 0..MaxBias,
     slope : 0..MaxSlope,
     timestamp : 0..MaxTime,
     nowMs : {500 * k : k \in 0..(2 * MaxTime + 1)}]

NoDecayInput == [bias |-> 0, slope |-> 0, timestamp |-> 0, nowMs |-> 0]
NoBalance == [done |-> FALSE, value |-> 0]

Calculate ==
    /\ ~calcResult.done
    /\ calcResult' =
            [done |-> TRUE,
             value |-> calculateVeBAlBalance(calcArgs.bias, calcArgs.slope,
                                             calcArgs.timestamp, calcArgs.nowMs)]
    /\ UNCHANGED <<calcArgs, queryVars, refetchVars, syncVars, clsVars, chainVars, timeVars, sorVars, joinVars>>

---------------------------------------------------------------------------
(* l2VeBalBalances *)

l2VeBalBalancesNullWhileLoading == votingEscrowLocksNull \/ isLoading

\* if (!votingEscrowLocks.value) return null
l2VeBalBalancesNull == votingEscrowLocksNull

l2VeBalBalancesOfMainnet ==
    LET lock == votingEscrowLocks[MAINNET]
    IN  [n \in {ARBITRUM} |->
            calculateVeBAlBalance(lock.bias, lock.slope, lock.timestamp, now)]

\* the map of projected balances, when it is not null
l2VeBalBalances ==
    LET lock == votingEscrowLocks[ARBITRUM]
    IN  [n \in {ARBITRUM} |->
            calculateVeBAlBalance(lock.bias, lock.slope, lock.timestamp, now)]

---------------------------------------------------------------------------
(* fetchPoolsForSor *)

\* the module's own call at load time and two consumers
SorCallers == {"moduleLoad", "callerA", "callerB"}

\* fetchPoolsForSor() up to its await: the guard, then balancer.swaps.fetchPools()
fetchPoolsForSorCall(c) ==
    /\ sorPc[c] = "idle"
    /\ IF hasFetchedPoolsForSor
       THEN /\ sorPc' = [sorPc EXCEPT ![c] = "returned"]
            /\ UNCHANGED fetchPoolsCalls
       ELSE /\ fetchPoolsCalls < MaxFetchPools
            /\ sorPc' = [sorPc EXCEPT ![c] = "awaiting"]
            /\ fetchPoolsCalls' = fetchPoolsCalls + 1
    /\ UNCHANGED <<hasFetchedPoolsForSor, queryVars, refetchVars, syncVars, clsVars,
                   decayVars, chainVars, timeVars, joinVars>>

\* the SDK's fetchPools() promise of caller c resolves
FetchPoolsResolve(c) ==
    /\ sorPc[c] = "awaiting"
    /\ sorPc' = [sorPc EXCEPT ![c] = "fetched"]
    /\ UNCHANGED <<hasFetchedPoolsForSor, fetchPoolsCalls, queryVars, refetchVars,
                   syncVars, clsVars, decayVars, chainVars, timeVars, joinVars>>

\* the SDK's fetchPools() promise of caller c rejects: so does fetchPoolsForSor()
FetchPoolsReject(c) ==
    /\ sorPc[c] = "awaiting"
    /\ sorPc' = [sorPc EXCEPT ![c] = "rejected"]
    /\ UNCHANGED <<hasFetchedPoolsForSor, fetchPoolsCalls, queryVars, refetchVars,
                   syncVars, clsVars, decayVars, chainVars, timeVars, joinVars>>

\* fetchPoolsForSor() after its await: hasFetchedPoolsForSor.value = true
fetchPoolsForSorResume(c) ==
    /\ sorPc[c] = "fetched"
    /\ hasFetchedPoolsForSor' = TRUE
    /\ sorPc' = [sorPc EXCEPT ![c] = "returned"]
    /\ UNCHANGED <<fetchPoolsCalls, queryVars, refetchVars, syncVars, clsVars,
                   decayVars, chainVars, timeVars, joinVars>>

\* the caller has the outcome and may call again
fetchPoolsForSorDone(c) ==
    /\ sorPc[c] \in {"returned", "rejected"}
    /\ sorPc' = [sorPc EXCEPT ![c] = "idle"]
    /\ UNCHANGED <<hasFetchedPoolsForSor, fetchPoolsCalls, queryVars, refetchVars,
                   syncVars, clsVars, decayVars, chainVars, timeVars, joinVars>>

---------------------------------------------------------------------------
(* WeightedPoolService.initJoin *)

AddressZero == "0x0000000000000000"
\* configService.network.nativeAsset.address
NativeAssetAddress == "0xEeeeeEeeeEeEeeEe"

\* token addresses a caller can pass: checksummed and lower-case spellings
TokenAddresses ==
    {NativeAssetAddress, "0xeeeeeeeeeeeeeeee", "0xBa100000625a3754", "0xba100000625a3754"}

\* getAddress(address): the checksummed spelling of an address
getAddress(address) ==
    CASE address = "0xeeeeeeeeeeeeeeee" -> NativeAssetAddress
      [] address = "0xba100000625a3754" -> "0xBa100000625a3754"
      [] OTHER -> address

\* isSameAddress(address1, address2) of @/lib/utils
isSameAddress(address1, address2) == getAddress(address1) = getAddress(address2)

Amounts == 1..MaxAmount

\* value(amountsIn, tokensIn): the amount at the last index whose address is
\* strictly equal (===) to the native asset's address, '0' when there is none
value(amountsIn, tokensIn) ==
    LET matches == {i \in 1..Len(amountsIn) : tokensIn[i] = NativeAssetAddress}
    IN  IF matches = {} THEN 0
        ELSE amountsIn[CHOOSE i \in matches : \A j \in matches : j <= i]

\* parseTokensIn(tokensIn)
parseTokensIn(tokensIn) ==
    [i \in 1..Len(tokensIn) |->
        IF isSameAddress(tokensIn[i], NativeAssetAddress) THEN AddressZero
        ELSE tokensIn[i]]

\* the tokens of a pool are two different accounts, each in either spelling
JoinInputs ==
    {[tokenAddresses |-> t, initialBalancesString |-> a] :
        t \in {p \in TokenAddresses \X TokenAddresses : ~isSameAddress(p[1], p[2])},
        a \in Amounts \X Amounts}

NoJoinArgs == [tokenAddresses |-> <<>>, initialBalancesString |-> <<>>]
NoJoinTx == [sent |-> FALSE, assets |-> <<>>, maxAmountsIn |-> <<>>, value |-> 0]

\* initJoin(provider, poolId, sender, receiver, tokenAddresses, initialBalancesString)
initJoin ==
    /\ ~joinTx.sent
    /\ joinTx' =
            [sent |-> TRUE,
             assets |-> parseTokensIn(joinArgs.tokenAddresses),
             maxAmountsIn |-> joinArgs.initialBalancesString,
             value |-> value(joinArgs.initialBalancesString, joinArgs.tokenAddresses)]
    /\ UNCHANGED <<joinArgs, queryVars, refetchVars, syncVars, clsVars, decayVars,
                   chainVars, timeVars, sorVars>>

---------------------------------------------------------------------------
(* Specifications *)

\* the queries start their first fetch when the composable is set up; the
\* Arbitrum query has no user to ask for until the bridged record is loaded
InitQueries ==
    /\ omniEscrowResponse = NoData
    /\ mainnetVotingEscrowResponse = NoData
    /\ arbitrumVotingEscrowResponse = NoData
    /\ arbKey = Undefined
    /\ inFlight = [q \in Queries |-> q # "arb"]
    /\ lookupUser = [q \in Queries |-> IF q = "arb" THEN Undefined ELSE QueryUser(q)]

InitRefetch ==
    /\ refetchPc = "idle"
    /\ promise = NoPromises
    /\ issued = NoneIssued
    /\ ruAtCall = FALSE
    /\ syncPcAtCall = "idle"

InitSync ==
    /\ syncPc = "idle"
    /\ syncNetwork = Undefined
    /\ syncError = Undefined
    /\ estimateCalls = 0
    /\ estimateChainId = Undefined
    /\ nativeFee = 0
    /\ sendCalls = 0
    /\ sendArgs = NoSendArgs
    /\ syncResult = Undefined

InitClassifier ==
    /\ clsArgs = NoClassifierInput
    /\ clsResult = "none"

InitDecay ==
    /\ calcArgs = NoDecayInput
    /\ calcResult = NoBalance

\* a lock that has fully propagated: the three chains hold the same record
SyncedLock == [bias |-> 0, slope |-> 0]

InitChain ==
    /\ chainCanonical = SyncedLock
    /\ chainBridged = SyncedLock
    /\ chainSecondary = SyncedLock

InitTime == now = 0

InitJoinState ==
    /\ joinArgs = NoJoinArgs
    /\ joinTx = NoJoinTx

InitSor ==
    /\ hasFetchedPoolsForSor = FALSE
    /\ sorPc = [c \in SorCallers |-> "idle"]
    /\ fetchPoolsCalls = 0

Init ==
    /\ InitQueries
    /\ InitRefetch
    /\ InitSync
    /\ hasContractAddress = TRUE
    /\ InitClassifier
    /\ InitDecay
    /\ InitChain
    /\ InitTime
    /\ InitSor
    /\ InitJoinState

Next ==
    \/ \E q \in Queries : \E resp \in Responses(q) : FetchResolve(q, resp)
    \/ \E q \in Queries : FetchReject(q)
    \/ ArbitrumKeyChange
    \/ RefetchCall
    \/ RefetchAfterAll
    \/ RefetchAllRejected
    \/ RefetchAfterArbitrum
    \/ RefetchReturn

Spec == Init /\ [][Next]_vars

InitSyncSpec ==
    /\ InitQueries
    /\ InitRefetch
    /\ InitSync
    /\ hasContractAddress \in BOOLEAN
    /\ InitClassifier
    /\ InitDecay
    /\ InitChain
    /\ InitTime
    /\ InitSor
    /\ InitJoinState

NextSync ==
    \/ \E network \in allNetworks : SyncCall(network)
    \/ \E fee \in Fees : EstimateResolve(fee)
    \/ EstimateReject
    \/ SyncAfterEstimate
    \/ \E tx \in TxHandles : SendResolve(tx)
    \/ SendReject
    \/ SyncAfterSend
    \/ SyncReturn

SpecSync == InitSyncSpec /\ [][NextSync]_vars

InitClassifierSpec ==
    /\ InitQueries
    /\ InitRefetch
    /\ InitSync
    /\ hasContractAddress = TRUE
    /\ clsArgs \in ClassifierInputs
    /\ clsResult = "none"
    /\ InitDecay
    /\ InitChain
    /\ InitTime
    /\ InitSor
    /\ InitJoinState

NextClassifier == Classify

SpecClassifier == InitClassifierSpec /\ [][NextClassifier]_vars

InitDecaySpec ==
    /\ InitQueries
    /\ InitRefetch
    /\ InitSync
    /\ hasContractAddress = TRUE
    /\ InitClassifier
    /\ calcArgs \in DecayInputs
    /\ calcResult = NoBalance
    /\ InitChain
    /\ InitTime
    /\ InitSor
    /\ InitJoinState

NextDecay == Calculate

SpecDecay == InitDecaySpec /\ [][NextDecay]_vars

\* the reconciler and sync() side by side: the user may start sync() and
\* refetch() at any time and the awaits of both interleave freely
OmniDeliveries ==
    {Loaded(<<>>), Loaded(<<[bias |-> 0, slope |-> 0, remoteUser |-> account]>>)}
VotingDeliveries ==
    {Loaded(<<>>), Loaded(<<[bias |-> 0, slope |-> 0]>>),
     Loaded(<<[bias |-> 1, slope |-> 1]>>)}
Deliveries(q) == IF q = "omni" THEN OmniDeliveries ELSE VotingDeliveries

NextAll ==
    \/ \E q \in Queries : \E resp \in Deliveries(q) : FetchResolve(q, resp)
    \/ \E q \in Queries : FetchReject(q)
    \/ ArbitrumKeyChange
    \/ RefetchCall
    \/ RefetchAfterAll
    \/ RefetchAllRejected
    \/ RefetchAfterArbitrum
    \/ RefetchReturn
    \/ SyncCall(ARBITRUM)
    \/ EstimateResolve(MaxFee)
    \/ EstimateReject
    \/ SyncAfterEstimate
    \/ SendResolve("0xTxA")
    \/ SendReject
    \/ SyncAfterSend
    \/ SyncReturn

SpecAll == Init /\ [][NextAll]_vars

\* the chains behind the three queries: the user changes the lock on the
\* canonical chain, the bridge contract mirrors it, the secondary chain
\* consumes the bridged message, and every fetch delivers what its chain holds
ChainLocks ==
    {[bias |-> 0, slope |-> 0], [bias |-> 1, slope |-> 0], [bias |-> 1, slope |-> 1]}

CanonicalUpdate(lock) ==
    /\ lock # chainCanonical
    /\ chainCanonical' = lock
    /\ UNCHANGED <<chainBridged, chainSecondary, queryVars, refetchVars, syncVars,
                   clsVars, decayVars, timeVars, sorVars, joinVars>>

BridgeMirror ==
    /\ chainBridged # chainCanonical
    /\ chainBridged' = chainCanonical
    /\ UNCHANGED <<chainCanonical, chainSecondary, queryVars, refetchVars, syncVars,
                   clsVars, decayVars, timeVars, sorVars, joinVars>>

SecondaryConsume ==
    /\ chainSecondary # chainBridged
    /\ chainSecondary' = chainBridged
    /\ UNCHANGED <<chainCanonical, chainBridged, queryVars, refetchVars, syncVars,
                   clsVars, decayVars, timeVars, sorVars, joinVars>>

\* the response of query q when fetched now
ChainRecord(q) ==
    IF q = "omni"
    THEN Loaded(<<[bias |-> chainBridged.bias, slope |-> chainBridged.slope,
                   remoteUser |-> account]>>)
    ELSE IF q = "main" THEN Loaded(<<chainCanonical>>)
    ELSE Loaded(<<chainSecondary>>)

NextChain ==
    \/ \E lock \in ChainLocks : CanonicalUpdate(lock)
    \/ BridgeMirror
    \/ SecondaryConsume
    \/ \E q \in Queries : FetchResolve(q, ChainRecord(q))
    \/ \E q \in Queries : FetchReject(q)
    \/ ArbitrumKeyChange
    \/ RefetchCall
    \/ RefetchAfterAll
    \/ RefetchAllRejected
    \/ RefetchAfterArbitrum
    \/ RefetchReturn

SpecChain == Init /\ [][NextChain]_vars

\* the projected balances over time: the queries deliver lock records that
\* carry the timestamp of their last checkpoint, and the clock advances
TimedLocks ==
    {[bias |-> MaxBias, slope |-> 1, timestamp |-> 0],
     [bias |-> MaxBias, slope |-> MaxSlope, timestamp |-> 1],
     [bias |-> 1, slope |-> MaxSlope, timestamp |-> MaxTime]}
TimedDeliveries(q) ==
    IF q = "omni" THEN OmniDeliveries
    ELSE {Loaded(<<>>)} \cup {Loaded(<<r>>) : r \in TimedLocks}

\* Date.now() at the next evaluation
ClockTick ==
    /\ now < 1000 * MaxTime
    /\ now' = now + 500
    /\ UNCHANGED <<queryVars, refetchVars, syncVars, clsVars, decayVars, chainVars,
                   sorVars, joinVars>>

NextBalances ==
    \/ \E q \in Queries : \E resp \in TimedDeliveries(q) : FetchResolve(q, resp)
    \/ \E q \in Queries : FetchReject(q)
    \/ ArbitrumKeyChange
    \/ RefetchCall
    \/ RefetchAfterAll
    \/ RefetchAllRejected
    \/ RefetchAfterArbitrum
    \/ RefetchReturn
    \/ ClockTick

SpecBalances == Init /\ [][NextBalances]_vars

NextSor ==
    \/ \E c \in SorCallers : fetchPoolsForSorCall(c)
    \/ \E c \in SorCallers : FetchPoolsResolve(c)
    \/ \E c \in SorCallers : FetchPoolsReject(c)
    \/ \E c \in SorCallers : fetchPoolsForSorResume(c)
    \/ \E c \in SorCallers : fetchPoolsForSorDone(c)

SpecSor == Init /\ [][NextSor]_vars

InitJoinSpec ==
    /\ InitQueries
    /\ InitRefetch
    /\ InitSync
    /\ hasContractAddress = TRUE
    /\ InitClassifier
    /\ InitDecay
    /\ InitChain
    /\ InitTime
    /\ InitSor
    /\ joinArgs \in JoinInputs
    /\ joinTx = NoJoinTx

NextJoin == initJoin

SpecJoin == InitJoinSpec /\ [][NextJoin]_vars

---------------------------------------------------------------------------
(* Claims *)

AllUnsynced == [n \in allNetworks |-> Unsynced]

\* C1: whenever the bridge-mirror fetch has returned an empty record list, the
\* sync-state mapping is not null and gives Unsynced for Polygon, Arbitrum,
\* Gnosis and Optimism, and isLoading is false, whatever the other two queries
\* are doing.
C1_FastPath ==
    (omniEscrowResponse.loaded /\ omniEscrowResponse.rows = <<>>)
        => /\ ~networksSyncStateNull
           /\ networksSyncState = AllUnsynced
           /\ isLoading = FALSE

\* the fast path while the canonical-chain and the secondary fetch are running
C1_Witness ==
    /\ omniEscrowResponse.loaded /\ omniEscrowResponse.rows = <<>>
    /\ inFlight["main"] /\ inFlight["arb"]
    /\ networksSyncState = AllUnsynced
    /\ ~isLoading

ClsEqualBias ==
    /\ clsArgs.omniEscrowData.bias = clsArgs.votingEscrowMainnet.bias
    /\ clsArgs.omniEscrowData.bias = clsArgs.votingEscrowNetwork.bias
    /\ clsArgs.votingEscrowMainnet.bias = clsArgs.votingEscrowNetwork.bias

ClsEqualSlope ==
    /\ clsArgs.omniEscrowData.slope = clsArgs.votingEscrowMainnet.slope
    /\ clsArgs.omniEscrowData.slope = clsArgs.votingEscrowNetwork.slope
    /\ clsArgs.votingEscrowMainnet.slope = clsArgs.votingEscrowNetwork.slope

\* C2: getNetworkSyncState returns Synced for every triple whose three bias
\* values are equal and whose three slope values are equal.
C2_Synced ==
    (clsResult # "none" /\ ClsEqualBias /\ ClsEqualSlope) => clsResult = Synced

C2_Witness ==
    /\ ClsEqualBias /\ ClsEqualSlope
    /\ clsArgs.omniEscrowData.bias # clsArgs.omniEscrowData.slope
    /\ clsResult = Synced

ClsBridgedIsCanonical ==
    /\ clsArgs.omniEscrowData.bias = clsArgs.votingEscrowMainnet.bias
    /\ clsArgs.omniEscrowData.slope = clsArgs.votingEscrowMainnet.slope

\* C3: getNetworkSyncState returns Syncing for every triple whose bridged record
\* equals the canonical record in bias and slope and whose secondary record
\* differs from the bridged record in both bias and slope.
C3_Syncing ==
    (/\ clsResult # "none"
     /\ ClsBridgedIsCanonical
     /\ clsArgs.votingEscrowNetwork.bias # clsArgs.omniEscrowData.bias
     /\ clsArgs.votingEscrowNetwork.slope # clsArgs.omniEscrowData.slope)
        => clsResult = Syncing

C3_Witness ==
    /\ ClsBridgedIsCanonical
    /\ clsArgs.votingEscrowNetwork.bias # clsArgs.omniEscrowData.bias
    /\ clsArgs.votingEscrowNetwork.slope # clsArgs.omniEscrowData.slope
    /\ clsResult = Syncing

\* record a differs from record b in exactly one of bias and slope
DiffersInExactlyOne(a, b) == (a.bias # b.bias) # (a.slope # b.slope)

\* C4: getNetworkSyncState returns Unsynced for every triple whose secondary
\* record differs from the bridged or from the canonical record in exactly one
\* of bias and slope.
C4_Asymmetric ==
    (/\ clsResult # "none"
     /\ \/ DiffersInExactlyOne(clsArgs.votingEscrowNetwork, clsArgs.omniEscrowData)
        \/ DiffersInExactlyOne(clsArgs.votingEscrowNetwork,
                               clsArgs.votingEscrowMainnet))
        => clsResult = Unsynced

\* the bridge mirror equals the canonical record, the secondary record has the
\* same slope and another bias
C4_Witness ==
    /\ ClsBridgedIsCanonical
    /\ clsArgs.votingEscrowNetwork.bias # clsArgs.omniEscrowData.bias
    /\ clsArgs.votingEscrowNetwork.slope = clsArgs.omniEscrowData.slope
    /\ clsResult = Unsynced

\* C5: getNetworkSyncState returns Unsynced whenever the bridged record differs
\* from the canonical record in bias or in slope, for every secondary record.
C5_StaleMirror ==
    (clsResult # "none" /\ ~ClsBridgedIsCanonical) => clsResult = Unsynced

\* a stale mirror whose bias still equals the canonical bias, with a secondary
\* record that differs from the mirror in both fields
C5_Witness ==
    /\ clsArgs.omniEscrowData.bias = clsArgs.votingEscrowMainnet.bias
    /\ clsArgs.omniEscrowData.slope # clsArgs.votingEscrowMainnet.slope
    /\ clsArgs.votingEscrowNetwork.bias # clsArgs.omniEscrowData.bias
    /\ clsArgs.votingEscrowNetwork.slope # clsArgs.omniEscrowData.slope
    /\ clsResult = Unsynced

\* C6 as stated: a refetch() call that has resolved issued one bridge-mirror
\* and one canonical-chain refetch, and issued the secondary-network refetch if
\* and only if remoteUser was resolved when refetch() was called.
C6_AtCallTime ==
    refetchPc = "resolved"
        => /\ issued["omni"] = 1
           /\ issued["main"] = 1
           /\ (issued["arb"] = 1 <=> ruAtCall)

\* C6, amended: every refetch() call issues exactly one bridge-mirror and one
\* canonical-chain refetch; it issues the secondary-network refetch, once, in
\* the step that resumes it after both have resolved, if and only if remoteUser
\* is resolved in that step's state, and in no other step.
C6_AfterAwait ==
    /\ [](refetchPc # "idle" => issued["omni"] = 1 /\ issued["main"] = 1)
    /\ [](issued["arb"] <= 1)
    /\ [][(refetchPc = "awaitAll" /\ refetchPc' # "awaitAll")
            => ((issued'["arb"] = issued["arb"] + 1)
                    <=> (/\ promise["omni"] = "resolved"
                         /\ promise["main"] = "resolved"
                         /\ remoteUser # Undefined))]_vars
    /\ [][(refetchPc # "awaitAll" /\ refetchPc' # "idle")
            => issued'["arb"] = issued["arb"]]_vars

\* a call made while remoteUser was unresolved that issued the secondary refetch
C6_Witness ==
    /\ refetchPc = "resolved"
    /\ ~ruAtCall
    /\ issued = [q \in Queries |-> 1]

\* C7: while refetch() is suspended at Promise.all both the bridge-mirror and the
\* canonical-chain refetch have been started, and the secondary-network refetch
\* has been started only if both of them have resolved.
C7_Ordering ==
    /\ refetchPc = "awaitAll"
        => /\ issued["omni"] = 1 /\ promise["omni"] # "none"
           /\ issued["main"] = 1 /\ promise["main"] # "none"
           /\ issued["arb"] = 0
    /\ issued["arb"] > 0
        => promise["omni"] = "resolved" /\ promise["main"] = "resolved"

\* the canonical-chain refetch completed first, the secondary one is running
C7_Witness ==
    /\ refetchPc = "awaitArbitrum"
    /\ promise = [q \in Queries |-> IF q = "arb" THEN "pending" ELSE "resolved"]
    /\ issued["arb"] = 1

\* C8: with no omniVotingEscrow address configured, sync() rejects with the
\* configuration error and neither estimateSendUserBalance nor sendUserBalance
\* is called.
C8_NoAddress ==
    ~hasContractAddress
        => /\ estimateCalls = 0
           /\ sendCalls = 0
           /\ syncPc \in {"idle", "rejected"}
           /\ syncPc = "rejected" => syncError = "No contract address found"

C8_Witness ==
    /\ ~hasContractAddress
    /\ syncPc = "rejected"
    /\ syncNetwork = ARBITRUM
    /\ estimateCalls = 0 /\ sendCalls = 0

\* C9: sendUserBalance is called only once estimateSendUserBalance has resolved,
\* and with the nativeFee it returned; when fee estimation rejects, sync()'s next
\* step rejects to the caller and sendUserBalance is never called.
C9_FeeFirst ==
    /\ [](sendCalls > 0
            => /\ sendCalls = 1 /\ estimateCalls = 1
               /\ nativeFee \in Fees
               /\ sendArgs.nativeFee = nativeFee
               /\ syncPc \in {"sending", "sent", "sendRejected", "resolved",
                              "rejected"})
    /\ []((syncPc = "estimateRejected"
            \/ syncError = "estimateSendUserBalance rejected") => sendCalls = 0)
    /\ [][syncPc = "estimateRejected"
            => /\ syncPc' = "rejected"
               /\ syncError' = "estimateSendUserBalance rejected"
               /\ sendCalls' = 0]_vars

\* sendUserBalance called with the fee estimation returned
C9_Witness ==
    /\ syncPc = "sending"
    /\ sendCalls = 1
    /\ nativeFee = MaxFee
    /\ sendArgs.nativeFee = MaxFee

\* C10: off the fast path (the bridge-mirror response is absent or non-empty),
\* isLoading is true exactly when a fetch of the bridge-mirror, canonical-chain
\* or secondary-network query is running.
C10_Loading ==
    ~(omniEscrowResponse.loaded /\ omniEscrowResponse.rows = <<>>)
        => (isLoading <=> \E q \in Queries : inFlight[q])

\* only the secondary-network fetch is running
C10_Witness ==
    /\ omniEscrowResponse.loaded /\ omniEscrowResponse.rows # <<>>
    /\ inFlight = [q \in Queries |-> q = "arb"]
    /\ isLoading

\* C11: whenever the sync-state mapping is not null it holds a sync state for
\* each of Polygon, Arbitrum, Gnosis and Optimism.
C11_AllNetworksClassified ==
    ~networksSyncStateNull
        => /\ DOMAIN networksSyncState = allNetworks
           /\ \A n \in allNetworks : networksSyncState[n] \in NetworkSyncState

\* C12: every chain id sync(network) passes to estimateSendUserBalance and to
\* sendUserBalance is a defined bridge identifier.
C12_DefinedChainId ==
    /\ estimateCalls > 0 => estimateChainId # Undefined
    /\ sendCalls > 0 => sendArgs.chainId # Undefined

SeqToSet(seq) == {seq[i] : i \in 1..Len(seq)}

\* C15: networksBySyncState has the three buckets synced, unsynced and syncing;
\* they are pairwise disjoint, each network of the mapping lies in the bucket
\* named by its state, their union is the key set of the mapping, and all
\* three are empty when the mapping is null.
C15_Partition ==
    LET b == networksBySyncState
    IN  /\ {"synced", "unsynced", "sincing"} \subseteq DOMAIN b
        /\ SeqToSet(b.synced) \cap SeqToSet(b.unsynced) = {}
        /\ SeqToSet(b.synced) \cap SeqToSet(b.sincing) = {}
        /\ SeqToSet(b.unsynced) \cap SeqToSet(b.sincing) = {}
        /\ networksSyncStateNull
            => b.synced = <<>> /\ b.unsynced = <<>> /\ b.sincing = <<>>
        /\ ~networksSyncStateNull
            => /\ SeqToSet(b.synced) \cup SeqToSet(b.unsynced)
                    \cup SeqToSet(b.sincing) = DOMAIN networksSyncState
               /\ \A n \in DOMAIN networksSyncState :
                    /\ n \in SeqToSet(b.synced) <=> networksSyncState[n] = Synced
                    /\ n \in SeqToSet(b.unsynced) <=> networksSyncState[n] = Unsynced
                    /\ n \in SeqToSet(b.sincing) <=> networksSyncState[n] = Syncing

\* the same partition, asked only of the states whose mapping is not null
C15_PartitionWhenClassified ==
    ~networksSyncStateNull => C15_Partition

\* C20: off the fast path the sync-state mapping is null exactly when a fetch of
\* one of the three queries is running or the bridged, the mainnet or the
\* Arbitrum lock record is absent.
C20_NullWhileLoading ==
    ~(omniEscrowResponse.loaded /\ omniEscrowResponse.rows = <<>>)
        => (networksSyncStateNull
                <=> \/ \E q \in Queries : inFlight[q]
                    \/ ~omniEscrowResponse.loaded
                    \/ ~mainnetVotingEscrowResponse.loaded
                    \/ mainnetVotingEscrowResponse.rows = <<>>
                    \/ ~arbitrumVotingEscrowResponse.loaded
                    \/ arbitrumVotingEscrowResponse.rows = <<>>)

\* all three records are present and the mapping is null because a fetch runs
C20_Witness ==
    /\ omniEscrowResponse.loaded /\ omniEscrowResponse.rows # <<>>
    /\ mainnetVotingEscrowResponse.loaded /\ mainnetVotingEscrowResponse.rows # <<>>
    /\ arbitrumVotingEscrowResponse.loaded /\ arbitrumVotingEscrowResponse.rows # <<>>
    /\ inFlight = [q \in Queries |-> q = "main"]
    /\ networksSyncStateNull

\* the exact value bias - slope * (now - timestamp), in units of 0.00001
C16_Exact ==
    calcArgs.bias - calcArgs.slope * ((calcArgs.nowMs \div 1000) - calcArgs.timestamp)

\* C16 as stated: the balance equals bias - slope * (now - timestamp), equals
\* bias when slope is zero, and is negative when slope * (now - timestamp)
\* exceeds bias.
C16_ExactBalance ==
    calcResult.done
        => /\ calcResult.value * 10 = C16_Exact
           /\ calcArgs.slope = 0 => calcResult.value * 10 = calcArgs.bias
           /\ C16_Exact < 0 => calcResult.value < 0

\* C16, amended: the balance is bias - slope * (now - timestamp) rounded to four
\* decimal places, a tie away from zero: it is within 0.00005 of the exact
\* value, it is bias rounded to four places when slope is zero, and it is
\* negative (not clamped to zero) whenever the exact value is -0.00005 or less.
C16_RoundedBalance ==
    calcResult.done
        => /\ calcResult.value * 10 - C16_Exact \in -5..5
           /\ C16_Exact >= 0 => calcResult.value * 10 - C16_Exact \in -4..5
           /\ C16_Exact < 0 => calcResult.value * 10 - C16_Exact \in -5..4
           /\ calcArgs.slope = 0
                => calcResult.value * 10 - calcArgs.bias \in -4..5
           /\ C16_Exact <= -5 => calcResult.value < 0
           /\ C16_Exact \in -4..4 => calcResult.value = 0

\* a positive bias decayed to 0.00005 or more below zero
C16_Witness ==
    /\ calcResult.done
    /\ C16_Exact <= -5
    /\ calcArgs.bias > 0
    /\ calcResult.value < 0

\* a step that issues a lookup of the Arbitrum query
C14_ArbitrumLookupIssued ==
    \/ ~inFlight["arb"] /\ inFlight'["arb"]
    \/ issued'["arb"] > issued["arb"]
    \/ lookupUser'["arb"] # lookupUser["arb"]

\* C14: every lookup of the Arbitrum query, the query's own or a refetched one,
\* is issued for the remoteUser of the bridged record of that moment (so never
\* for the connected account when remoteUser is another address), and every
\* mainnet lookup is issued for the connected account.
C14_RemoteUserLookups ==
    /\ [](lookupUser["main"] = "0xAccount")
    /\ [][C14_ArbitrumLookupIssued
            => /\ ~omniEscrowLocksAbsent
               /\ lookupUser'["arb"] = omniEscrowResponse.rows[1].remoteUser
               /\ omniEscrowResponse' = omniEscrowResponse]_vars

\* an Arbitrum lookup running for a remoteUser that is not the connected account
C14_Witness ==
    /\ inFlight["arb"]
    /\ ~omniEscrowLocksAbsent
    /\ omniEscrowResponse.rows[1].remoteUser = "0xDelegate"
    /\ lookupUser["arb"] = "0xDelegate"
    /\ issued["arb"] = 1


\* what a consumer of the composable can observe of the sync-state mapping:
\* whether it is null and, when it is not, the mapping itself
SyncStateView ==
    <<networksSyncStateNull,
      IF networksSyncStateNull THEN [n \in {} |-> Unsynced] ELSE networksSyncState>>

\* the inputs of the projected balances: l2VeBalBalances reads votingEscrowLocks only
VotingEscrowLocksView ==
    <<votingEscrowLocksNull,
      IF votingEscrowLocksNull THEN <<>> ELSE <<votingEscrowLocks>> >>

SourceRecords ==
    <<omniEscrowResponse, mainnetVotingEscrowResponse, arbitrumVotingEscrowResponse>>

DerivedViews == <<SyncStateView, networksBySyncState, VotingEscrowLocksView>>

SyncStep == syncVars' # syncVars

SyncSuspended == syncPc \in {"estimating", "sending"}

RefetchStep == refetchVars' # refetchVars \/ queryVars' # queryVars

\* C18: sync() and refetch() neither block nor cancel each other: whatever
\* the position of sync(), refetch() can start and each of its continuations
\* can run as soon as its own promises are settled; whatever the position of
\* refetch(), the outcome of each await of sync() can arrive and sync() can
\* go on to its caller; and a step of one leaves the other's state untouched.
C18_NoBlockNoCancel ==
    /\ [](refetchPc = "idle" => ENABLED RefetchCall)
    /\ []((refetchPc = "awaitAll" /\ AllResolved) => ENABLED RefetchAfterAll)
    /\ []((refetchPc = "awaitArbitrum" /\ promise["arb"] \in {"resolved", "rejected"})
              => ENABLED RefetchAfterArbitrum)
    /\ [](refetchPc \in {"resolved", "rejected"} => ENABLED RefetchReturn)
    /\ [](\A q \in Queries : inFlight[q] =>
              (ENABLED FetchReject(q) /\ \A resp \in Deliveries(q) : ENABLED FetchResolve(q, resp)))
    /\ [](syncPc = "estimating" => (ENABLED EstimateResolve(MaxFee) /\ ENABLED EstimateReject))
    /\ [](syncPc \in {"estimated", "estimateRejected"} => ENABLED SyncAfterEstimate)
    /\ [](syncPc = "sending" => (ENABLED SendResolve("0xTxA") /\ ENABLED SendReject))
    /\ [](syncPc \in {"sent", "sendRejected"} => ENABLED SyncAfterSend)
    /\ [][RefetchStep => syncVars' = syncVars]_vars
    /\ [][SyncStep => (refetchVars' = refetchVars /\ queryVars' = queryVars)]_vars

\* a refetch() that was started while sync() was suspended has issued its three
\* fetches and resolved, and sync() is suspended at that same await
C18_Witness ==
    /\ refetchPc = "resolved"
    /\ syncPcAtCall \in {"estimating", "sending"}
    /\ syncPc = syncPcAtCall
    /\ issued = [q \in Queries |-> 1]


\* C19: no rejection is swallowed. While refetch() awaits the bridge-mirror
\* and canonical refetches, a rejection of either lets it go on only by
\* rejecting, and a rejected refetch() that never got past them has issued no
\* secondary-network refetch; after the secondary-network refetch rejected,
\* refetch() goes on only by rejecting; after sendUserBalance (or fee
\* estimation) rejected, sync() goes on only by rejecting, with that error.
C19_RejectionsPropagate ==
    /\ [][(/\ refetchPc = "awaitAll"
           /\ (promise["omni"] = "rejected" \/ promise["main"] = "rejected")
           /\ refetchPc' # refetchPc)
              => (refetchPc' = "rejected" /\ issued'["arb"] = 0)]_vars
    /\ [](refetchPc = "awaitArbitrum" => AllResolved)
    /\ []((refetchPc = "awaitAll"
              /\ (promise["omni"] = "rejected" \/ promise["main"] = "rejected"))
              => (issued["arb"] = 0 /\ ENABLED RefetchAllRejected /\ ~ENABLED RefetchAfterAll))
    /\ [][(/\ refetchPc = "awaitArbitrum"
           /\ promise["arb"] = "rejected"
           /\ refetchPc' # refetchPc) => refetchPc' = "rejected"]_vars
    /\ [][(syncPc = "sendRejected" /\ syncPc' # syncPc)
              => (syncPc' = "rejected" /\ syncError' = "sendUserBalance rejected")]_vars
    /\ [][(syncPc = "estimateRejected" /\ syncPc' # syncPc)
              => (syncPc' = "rejected" /\ sendCalls' = 0)]_vars
    /\ [](syncPc = "rejected" => syncError # Undefined)

\* refetch() has rejected because its secondary-network refetch rejected,
\* and a sync() execution has rejected because sendUserBalance rejected
C19_Witness ==
    /\ refetchPc = "rejected"
    /\ promise["arb"] = "rejected"
    /\ syncPc = "rejected"
    /\ syncError = "sendUserBalance rejected"

\* refetch() has rejected on the bridge-mirror refetch without a secondary one
C19_WitnessFirstAwait ==
    /\ refetchPc = "rejected"
    /\ promise["omni"] = "rejected"
    /\ issued["arb"] = 0


\* a refetch() has completed with its three fetches and every fetched record
\* is what its chain holds now
ObservedFresh ==
    /\ refetchPc = "resolved"
    /\ issued = [q \in Queries |-> 1]
    /\ \A q \in Queries : ~inFlight[q] /\ Data(q) = ChainRecord(q)

ObservedState(state) ==
    ObservedFresh => (~networksSyncStateNull /\ networksSyncState[ARBITRUM] = state)

SecondaryDiffersInBoth ==
    chainSecondary.bias # chainBridged.bias /\ chainSecondary.slope # chainBridged.slope

NoTransitionWithoutRecordChange ==
    [][(/\ ~networksSyncStateNull
        /\ ~networksSyncStateNull'
        /\ SyncStateView' # SyncStateView) => SourceRecords' # SourceRecords]_vars

\* C17 as stated: a completed refetch observes Unsynced while the bridge has not
\* mirrored the canonical record, Syncing once it has and the secondary chain
\* has not consumed it, Synced once the secondary record equals it too; no
\* transition occurs without a fetched record changing.
C17_StateMachine ==
    /\ [](chainBridged # chainCanonical => ObservedState(Unsynced))
    /\ []((chainBridged = chainCanonical /\ chainSecondary # chainBridged)
              => ObservedState(Syncing))
    /\ []((chainBridged = chainCanonical /\ chainSecondary = chainBridged)
              => ObservedState(Synced))
    /\ NoTransitionWithoutRecordChange

\* C17, amended: as above, but mirrored-and-not-consumed is observed as Syncing
\* only when the secondary record differs from the bridged one in both bias
\* and slope; when it differs in one of them the observation stays Unsynced.
C17_StateMachineBothFields ==
    /\ [](chainBridged # chainCanonical => ObservedState(Unsynced))
    /\ []((chainBridged = chainCanonical /\ SecondaryDiffersInBoth)
              => ObservedState(Syncing))
    /\ []((chainBridged = chainCanonical /\ chainSecondary # chainBridged
               /\ ~SecondaryDiffersInBoth) => ObservedState(Unsynced))
    /\ []((chainBridged = chainCanonical /\ chainSecondary = chainBridged)
              => ObservedState(Synced))
    /\ NoTransitionWithoutRecordChange

\* a completed refetch observes Syncing: the bridge holds the canonical record
\* and the secondary chain still holds one that differs in bias and in slope
C17_Witness ==
    /\ ObservedFresh
    /\ chainBridged = chainCanonical
    /\ SecondaryDiffersInBoth
    /\ ~networksSyncStateNull
    /\ networksSyncState[ARBITRUM] = Syncing

\* a completed refetch observes Unsynced although the bridge holds the
\* canonical record: the secondary record differs in one field only
C17_WitnessOneField ==
    /\ ObservedFresh
    /\ chainBridged = chainCanonical
    /\ chainSecondary # chainBridged
    /\ ~SecondaryDiffersInBoth
    /\ ~networksSyncStateNull
    /\ networksSyncState[ARBITRUM] = Unsynced


\* the projected-balance map as a consumer reads it: null or the map
L2VeBalBalancesView ==
    <<l2VeBalBalancesNull, IF l2VeBalBalancesNull THEN <<>> ELSE <<l2VeBalBalances>> >>

\* C21: the projected-balance map is null exactly when the mainnet record or
\* the Arbitrum record is absent; otherwise its Arbitrum entry is the decay
\* formula applied to the Arbitrum record's own bias, slope and timestamp;
\* and it does not change while those two responses and the clock stay as
\* they are, whatever happens to the bridged record and the loading flags.
C21_OwnRecordOnly ==
    /\ [](l2VeBalBalancesNull <=> (mainnetLockAbsent \/ arbitrumLockAbsent))
    /\ [](~(mainnetLockAbsent \/ arbitrumLockAbsent) =>
            LET lock == arbitrumVotingEscrowResponse.rows[1]
            IN  /\ DOMAIN l2VeBalBalances = {ARBITRUM}
                /\ l2VeBalBalances[ARBITRUM] =
                      toFixed4(lock.bias - lock.slope * ((now \div 1000) - lock.timestamp)))
    /\ [][(/\ mainnetVotingEscrowResponse' = mainnetVotingEscrowResponse
           /\ arbitrumVotingEscrowResponse' = arbitrumVotingEscrowResponse
           /\ now' = now) => L2VeBalBalancesView' = L2VeBalBalancesView]_vars

\* a balance is projected while the bridged record is being refetched, the
\* mainnet record differs from the Arbitrum one and time has passed
C21_Witness ==
    /\ ~l2VeBalBalancesNull
    /\ isLoadingOmniEscrow
    /\ isLoading
    /\ now >= 1000
    /\ mainnetVotingEscrowResponse.rows[1] # arbitrumVotingEscrowResponse.rows[1]
    /\ l2VeBalBalances # l2VeBalBalancesOfMainnet


\* C22: fetchPools is invoked at most once over all calls; the flag is true
\* only after a fetchPools call has resolved, a rejection leaves it as it
\* is, and it never returns to false.
C22_FetchedAtMostOnce ==
    /\ [](fetchPoolsCalls <= 1)
    /\ [][hasFetchedPoolsForSor' # hasFetchedPoolsForSor =>
            (hasFetchedPoolsForSor' /\ \E c \in SorCallers : sorPc[c] = "fetched")]_vars
    /\ [][(\E c \in SorCallers : sorPc[c] = "awaiting" /\ sorPc'[c] = "rejected")
            => UNCHANGED hasFetchedPoolsForSor]_vars

\* the parts of C22 that hold: the flag turns true only when a resolved
\* fetchPools call resumes, never turns false, and no call that starts after
\* the flag is set invokes fetchPools
C22_FlagMonotone ==
    /\ [][hasFetchedPoolsForSor' # hasFetchedPoolsForSor =>
            (hasFetchedPoolsForSor' /\ \E c \in SorCallers : sorPc[c] = "fetched")]_vars
    /\ [][hasFetchedPoolsForSor => UNCHANGED fetchPoolsCalls]_vars

\* two fetchPools calls are running at once
C22_WitnessConcurrent ==
    /\ fetchPoolsCalls = 2
    /\ sorPc["moduleLoad"] = "awaiting"
    /\ sorPc["callerA"] = "awaiting"

\* a token is rewritten to the zero address by initJoin
Rewritten(i) ==
    /\ joinTx.assets[i] = AddressZero
    /\ joinArgs.tokenAddresses[i] # AddressZero

\* C23: whenever initJoin rewrites a token to the zero address, the value it
\* attaches is the initial balance at that token's index, and the value is 0
\* exactly when no token is rewritten.
C23_ValueMatchesRewrite ==
    joinTx.sent =>
        /\ \A i \in 1..Len(joinTx.assets) :
              Rewritten(i) => \E j \in 1..Len(joinTx.assets) :
                                Rewritten(j) /\ joinTx.value = joinTx.maxAmountsIn[j]
        /\ (joinTx.value = 0) <=> (\A i \in 1..Len(joinTx.assets) : ~Rewritten(i))

\* what holds instead: the value is the balance of a token spelled exactly as
\* the configured native address, and 0 when no token is spelled that way
C23_ValueOfExactSpelling ==
    joinTx.sent =>
        LET exact == {i \in 1..Len(joinTx.assets) :
                        joinArgs.tokenAddresses[i] = NativeAssetAddress}
        IN  /\ exact # {} => \E i \in exact : joinTx.value = joinTx.maxAmountsIn[i]
            /\ exact = {} => joinTx.value = 0
            /\ \A i \in exact : Rewritten(i)

\* a join was sent whose native token, in lower case, was rewritten to the
\* zero address while no value is attached
C23_WitnessNoValue ==
    /\ joinTx.sent
    /\ Rewritten(1)
    /\ joinTx.value = 0

====
